---- MODULE Spec2Model ----
(***************************************************************************)
(* Model of the X728 UPS watchdog daemon (src/src/main.rs).                *)
(*                                                                         *)
(* Time is in milliseconds.  A task runs in zero time between its          *)
(* suspension points; time passes only while every task is suspended, and  *)
(* a sleep may wake up to MaxJitter ms after its deadline.  The OS signal  *)
(* handler runs on its own thread and can cancel at any instant.           *)
(***************************************************************************)
EXTENDS Integers, Sequences, FiniteSets, TLC

\* ------------------------------------------------------------------ bounds
MaxTime == 22700
MaxButtonTime == 2700
MaxJitter == 2

\* ------------------------------------------------- constants of the source
SLEEP_BUTTON_MS == 50
SLEEP_POWER_MS == 10000
REBOOT_HOLD_MS == 2000
CAPACITY_DIVISOR == 25600

Tasks == {"power", "button"}

\* Inputs the harness draws from.
Timeouts == {10, 3600}
Commands == {<< >>, <<" ">>, <<"s", " ", "h">>}
RebootCommands == {<<"r">>}
\* (press_at, hold): the button pin is High on [press_at, press_at + hold).
NoPress == <<0, 0>>
ButtonScripts ==
    { NoPress, <<0, 30>>, <<20, 30>>, <<0, 800>>, <<0, 2000>>, <<0, 2190>>,
      <<0, 2500>> }
\* A press held long enough for a restored-power pattern to follow its beep.
JoinedScripts == {<<0, 450>>}
ProgramScripts == { <<0, 800>>, <<0, 2500>> }
\* Words as they arrive on the I2C bus (big-endian), and a failed read.
WireWords == {15, 65299, 276, 100}
ReadError == -1

VARIABLES
    now,            \* monotonic clock (Instant::now), ms
    token,          \* CancellationToken: is_cancelled()
    args,           \* Args: [shutdown, reboot, timeout]
    power_level,    \* level of GPIO_POWER_LOSS
    button_script,  \* <<press_at, hold>> of GPIO_BUTTON
    main_pc,        \* position of main
    rt_pc,          \* position of power_loss_routine / button_routine
    rt_result,      \* Result returned by each routine
    mon_pc,         \* position of get_power_loss_action / get_button_action
    action,         \* Option<PowerLossAction> / Option<ButtonAction> returned
    wake,           \* deadline of the sleep a task is suspended in, -1 if none
    beep_pc,        \* position of each task's beep call
    beep_args,      \* [high, low, count] of each task's beep call
    counter,        \* loop variable of beep
    lock,           \* holder of the gpio_buzzer mutex, "free" if none
    buzzer,         \* level of GPIO_BUZZER
    last_source,    \* get_power_loss_action local
    state_changed,  \* get_power_loss_action local
    new_source,     \* get_power_loss_action local
    pulse_start,    \* get_button_action local
    calls,          \* commands passed to run_shell_command, in order
    process,        \* the spawned child: "none", "running", "exited"
    hist            \* history of observable events (not program state)

vars == << now, token, args, power_level, button_script, main_pc, rt_pc,
           rt_result, mon_pc, action, wake, beep_pc, beep_args, counter, lock,
           buzzer, last_source, state_changed, new_source, pulse_start, calls,
           process, hist >>

\* ------------------------------------------------------------ pure helpers
None == [kind |-> "None", value |-> 0]
Some(k, v) == [kind |-> k, value |-> v]

\* get_power_source: Level -> PowerSource
get_power_source(level) == IF level = "Low" THEN "PowerSupply" ELSE "Battery"

\* Level of the button pin at time t under a script.
ButtonLevel(script, t) ==
    IF script[1] <= t /\ t < script[1] + script[2] THEN "High" ELSE "Low"

\* get_button_state: Level -> ButtonState
get_button_state(level) == IF level = "Low" THEN "Released" ELSE "Pressed"

\* u16::from_be on a little-endian target: swap the two bytes.
from_be(w) == (w % 256) * 256 + (w \div 256)

\* get_capacity: the ratio read / 25600, kept as its numerator.
get_capacity(word) == IF word = ReadError THEN ReadError ELSE from_be(word)

\* A threshold of 10% instead of 20%.
CapacityIsLow_tenth(c) == c * 10 < CAPACITY_DIVISOR

\* new_capacity < Percentage::from(0.2): read / 25600 < 1 / 5.
CapacityIsLow(c) == c * 5 < CAPACITY_DIVISOR

\* elapsed > shutdown_duration, with Duration::from_secs(args.timeout).
TimedOut(elapsed, timeout) == elapsed > timeout * 1000

\* A threshold test that excludes the boundary.
IsReboot_strict(elapsed) == elapsed > REBOOT_HOLD_MS

\* elapsed >= Duration::from_secs(2)
IsReboot(elapsed) == elapsed >= REBOOT_HOLD_MS

\* A cancel() that leaves the token as it was.
cancel_lost(tok) == tok

\* A cancel() that flips the token.
cancel_toggle(tok) == ~tok

\* CancellationToken::cancel
cancel(tok) == TRUE

\* A check that never sees the token set.
is_cancelled_stale(tok) == FALSE

\* CancellationToken::is_cancelled
is_cancelled(tok) == tok

\* A sleep that is not raced against cancellation.
SelectReady_timer_only(tok, deadline, t) == t >= deadline

\* select! { cancelled() , sleep(d) }: ready when either branch is.
SelectReady(tok, deadline, t) == tok \/ t >= deadline

\* str::split_whitespace: the words of a command line.
RECURSIVE SplitFrom(_, _, _)
SplitFrom(s, cur, acc) ==
    IF s = << >>
    THEN IF cur = << >> THEN acc ELSE Append(acc, cur)
    ELSE IF Head(s) = " "
         THEN SplitFrom(Tail(s), << >>, IF cur = << >> THEN acc ELSE Append(acc, cur))
         ELSE SplitFrom(Tail(s), Append(cur, Head(s)), acc)

\* A split that cuts at no character: the whole line is one word.
split_whitespace_whole(s) == IF s = << >> THEN << >> ELSE << s >>

split_whitespace(s) == SplitFrom(s, << >>, << >>)

\* Exit of the child: an exit code, death by signal (code() is None), or a
\* failed wait().
ExitCodes == {0, 1}
NoExitCode == -1
WaitError == -2
ExitStatuses == ExitCodes \cup {NoExitCode, WaitError}

\* Result of run_shell_command once the child's wait() has returned.
ExitResult(status) ==
    IF status = WaitError THEN "WaitFailed"
    ELSE IF status # NoExitCode /\ status # 0 THEN "CommandFailed"
    ELSE "Ok"

\* The command each routine passes to run_shell_command for an action.
power_loss_command(act, a) == a.shutdown

\* A button_routine that runs the shutdown command for every action.
button_command_shutdown_only(act, a) == a.shutdown

button_command(act, a) == IF act.kind = "Reboot" THEN a.reboot ELSE a.shutdown

routine_command(t, act, a) ==
    IF t = "power" THEN power_loss_command(act, a) ELSE button_command(act, a)

\* A Battery tick that reads the capacity before it looks at the timeout.
power_decision_capacity_first(elapsed, timeout, word) ==
    LET c == get_capacity(word) IN
    IF c # ReadError /\ CapacityIsLow(c)
    THEN [action |-> Some("CapacityLow", c), read |-> TRUE]
    ELSE IF TimedOut(elapsed, timeout)
         THEN [action |-> Some("Timeout", elapsed), read |-> TRUE]
         ELSE [action |-> None, read |-> TRUE]

\* A Battery tick on which a failed capacity read counts as an empty battery.
power_decision_read_fatal(elapsed, timeout, word) ==
    IF TimedOut(elapsed, timeout)
    THEN [action |-> Some("Timeout", elapsed), read |-> FALSE]
    ELSE LET c == get_capacity(word) IN
         IF c = ReadError \/ CapacityIsLow(c)
         THEN [action |-> Some("CapacityLow", c), read |-> TRUE]
         ELSE [action |-> None, read |-> TRUE]

\* One Battery tick of get_power_loss_action (lines 307-320): the action it
\* resolves, and whether it read the capacity register.
power_decision(elapsed, timeout, word) ==
    IF TimedOut(elapsed, timeout)
    THEN [action |-> Some("Timeout", elapsed), read |-> FALSE]
    ELSE LET c == get_capacity(word) IN
         IF c # ReadError /\ CapacityIsLow(c)
         THEN [action |-> Some("CapacityLow", c), read |-> TRUE]
         ELSE [action |-> None, read |-> TRUE]

\* The action get_button_action resolves on release (lines 367-373).
button_decision(elapsed) ==
    IF IsReboot(elapsed) THEN Some("Reboot", elapsed) ELSE Some("Shutdown", elapsed)

\* The feedback pattern get_power_loss_action plays for a new source.
RestoredBeep == [high |-> 50, low |-> 100, count |-> 2]
LostBeep == [high |-> 500, low |-> 500, count |-> 3]
PressBeep == [high |-> 200, low |-> 200, count |-> 1]
NoBeep == [high |-> 0, low |-> 0, count |-> 0]

\* The two patterns swapped.
transition_beep_swapped(source) ==
    IF source = "PowerSupply" THEN LostBeep ELSE RestoredBeep

transition_beep(source) == IF source = "PowerSupply" THEN RestoredBeep ELSE LostBeep

\* ---------------------------------------------------------------- initial
InitHist ==
    [ signalled |-> FALSE, ever_battery |-> FALSE, cancelled_at |-> -1,
      cap_reads |-> 0, last_cap |-> ReadError, samples |-> [t \in Tasks |-> 0], sleeps |-> 0,
      changes |-> 0, beep_calls |-> [t \in Tasks |-> 0],
      pulses |-> [t \in Tasks |-> 0], beep_start |-> [t \in Tasks |-> 0],
      spawned |-> 0, exit |-> -3 ]

InitCommon ==
    /\ now = 0
    /\ token = FALSE
    /\ args \in [shutdown : Commands, reboot : RebootCommands, timeout : Timeouts]
    /\ power_level \in {"Low", "High"}
    /\ rt_result = [t \in Tasks |-> "Pending"]
    /\ action = [t \in Tasks |-> None]
    /\ wake = [t \in Tasks |-> -1]
    /\ beep_pc = [t \in Tasks |-> "idle"]
    /\ beep_args = [t \in Tasks |-> NoBeep]
    /\ counter = [t \in Tasks |-> 0]
    /\ lock = "free"
    /\ buzzer = "Low"
    /\ last_source = "PowerSupply"
    /\ state_changed = 0
    /\ new_source = "PowerSupply"
    /\ pulse_start = 0
    /\ calls = << >>
    /\ process = "none"
    /\ hist = [InitHist EXCEPT !.ever_battery = (power_level = "High")]

\* main: power_loss_routine is awaited first; button_routine is not polled
\* until it has returned.
Init ==
    /\ InitCommon
    /\ button_script \in ProgramScripts
    /\ main_pc = "power_loss_routine"
    /\ rt_pc = [t \in Tasks |-> IF t = "power" THEN "monitor" ELSE "idle"]
    /\ mon_pc = [t \in Tasks |-> IF t = "power" THEN "start" ELSE "idle"]

\* One routine called on its own with a fresh token.
InitRoutine ==
    /\ InitCommon
    /\ main_pc = "harness"
    /\ \E r \in Tasks :
          /\ IF r = "power"
             THEN button_script = NoPress
             ELSE button_script \in ButtonScripts /\ power_level = "Low"
                  /\ args.timeout = 10
          /\ rt_pc = [t \in Tasks |-> IF t = r THEN "monitor" ELSE "idle"]
          /\ mon_pc = [t \in Tasks |->
                         IF t # r THEN "idle"
                         ELSE IF t = "power" THEN "start" ELSE "loop"]

\* Both routines polled together on one X728USV and one token: the only way
\* two beep calls can be in progress at once.
InitJoined ==
    /\ InitCommon
    /\ main_pc = "harness"
    /\ args.shutdown = <<"s", " ", "h">>
    /\ args.timeout = 10
    /\ button_script \in JoinedScripts
    /\ rt_pc = [t \in Tasks |-> "monitor"]
    /\ mon_pc = [t \in Tasks |-> IF t = "power" THEN "start" ELSE "loop"]

\* ------------------------------------------------------------------- beep
\* A buzzer mutex that never makes a caller wait.
lock_available_always(holder) == TRUE

\* Mutex::lock().await completes only while no guard is alive.
lock_available(holder) == holder = "free"

\* Every step of a task's beep call (lines 382-412).
BeepReady(t) ==
    CASE beep_pc[t] = "lock" -> lock_available(lock)
      [] beep_pc[t] = "pulse" -> TRUE
      [] beep_pc[t] \in {"high", "low"} -> SelectReady(token, wake[t], now)
      [] OTHER -> FALSE

\* self.gpio_buzzer.lock().await
BeepLock(self) ==
    /\ lock' = self
    /\ beep_pc' = [beep_pc EXCEPT ![self] = "pulse"]
    /\ counter' = [counter EXCEPT ![self] = 0]
    /\ UNCHANGED << buzzer, wake, hist >>

\* Head of one pulse: return if cancelled, else set_high and sleep.
BeepPulse(self) ==
    IF counter[self] >= beep_args[self].count \/ is_cancelled(token)
    THEN /\ beep_pc' = [beep_pc EXCEPT ![self] = "returned"]
         /\ lock' = "free"
         /\ UNCHANGED << buzzer, wake, counter, hist >>
    ELSE /\ buzzer' = "High"
         /\ wake' = [wake EXCEPT ![self] = now + beep_args[self].high]
         /\ beep_pc' = [beep_pc EXCEPT ![self] = "high"]
         /\ hist' = [hist EXCEPT !.pulses[self] = IF buzzer = "Low" THEN @ + 1 ELSE @]
         /\ UNCHANGED << lock, counter >>

\* A high phase that leaves the device high when cancellation ends it.
BeepHigh_skip_low(self) ==
    /\ buzzer' = IF is_cancelled(token) THEN buzzer ELSE "Low"
    /\ IF counter[self] + 1 < beep_args[self].count
       THEN /\ wake' = [wake EXCEPT ![self] = now + beep_args[self].low]
            /\ beep_pc' = [beep_pc EXCEPT ![self] = "low"]
            /\ UNCHANGED counter
       ELSE /\ wake' = [wake EXCEPT ![self] = -1]
            /\ beep_pc' = [beep_pc EXCEPT ![self] = "pulse"]
            /\ counter' = [counter EXCEPT ![self] = @ + 1]
    /\ UNCHANGED << lock, hist >>

\* After the high phase: set_low, and sleep if more pulses remain.
BeepHigh(self) ==
    /\ buzzer' = "Low"
    /\ IF counter[self] + 1 < beep_args[self].count
       THEN /\ wake' = [wake EXCEPT ![self] = now + beep_args[self].low]
            /\ beep_pc' = [beep_pc EXCEPT ![self] = "low"]
            /\ UNCHANGED counter
       ELSE /\ wake' = [wake EXCEPT ![self] = -1]
            /\ beep_pc' = [beep_pc EXCEPT ![self] = "pulse"]
            /\ counter' = [counter EXCEPT ![self] = @ + 1]
    /\ UNCHANGED << lock, hist >>

\* After the low phase: next iteration of the for loop.
BeepLow(self) ==
    /\ wake' = [wake EXCEPT ![self] = -1]
    /\ beep_pc' = [beep_pc EXCEPT ![self] = "pulse"]
    /\ counter' = [counter EXCEPT ![self] = @ + 1]
    /\ UNCHANGED << lock, buzzer, hist >>

beep(self) ==
    /\ rt_pc[self] = "monitor" /\ mon_pc[self] = "beep"
    /\ BeepReady(self)
    /\ CASE beep_pc[self] = "lock" -> BeepLock(self)
         [] beep_pc[self] = "pulse" -> BeepPulse(self)
         [] beep_pc[self] = "high" -> BeepHigh(self)
         [] beep_pc[self] = "low" -> BeepLow(self)
    /\ UNCHANGED << now, token, args, power_level, button_script, main_pc, rt_pc,
                    rt_result, mon_pc, action, beep_args, last_source,
                    state_changed, new_source, pulse_start, calls, process >>

\* A monitor calls beep(high, low, count).
CallBeep(self, pattern) ==
    /\ beep_pc' = [beep_pc EXCEPT ![self] = "lock"]
    /\ beep_args' = [beep_args EXCEPT ![self] = pattern]
    /\ mon_pc' = [mon_pc EXCEPT ![self] = "beep"]

\* -------------------------------------------------- get_power_loss_action
Return(self, act) ==
    /\ mon_pc' = [mon_pc EXCEPT ![self] = "done"]
    /\ action' = [action EXCEPT ![self] = act]

\* A monitor that takes the supply for present without reading the pin.
PowerStart_assume_supply ==
    /\ last_source' = "PowerSupply"
    /\ state_changed' = now
    /\ mon_pc' = [mon_pc EXCEPT !["power"] = "loop"]
    /\ UNCHANGED << action, wake, beep_pc, beep_args, new_source, hist >>

\* Lines 264-265.
PowerStart ==
    /\ last_source' = get_power_source(power_level)
    /\ state_changed' = now
    /\ mon_pc' = [mon_pc EXCEPT !["power"] = "loop"]
    /\ UNCHANGED << action, wake, beep_pc, beep_args, new_source, hist >>

\* A sample that takes the new source but keeps the old state_changed.
PowerLoop_no_reset ==
    IF is_cancelled(token)
    THEN /\ Return("power", None)
         /\ UNCHANGED << wake, beep_pc, beep_args, last_source, state_changed,
                         new_source, hist >>
    ELSE LET src == get_power_source(power_level) IN
         /\ new_source' = src
         /\ IF src # last_source
            THEN /\ last_source' = src
                 /\ UNCHANGED state_changed
                 /\ CallBeep("power", transition_beep(src))
                 /\ hist' = [hist EXCEPT !.samples["power"] = @ + 1,
                                         !.changes = @ + 1,
                                         !.beep_calls["power"] = @ + 1,
                                         !.pulses["power"] = 0,
                                         !.beep_start["power"] = now]
            ELSE /\ mon_pc' = [mon_pc EXCEPT !["power"] = "check"]
                 /\ hist' = [hist EXCEPT !.samples["power"] = @ + 1]
                 /\ UNCHANGED << last_source, state_changed, beep_pc, beep_args >>
         /\ UNCHANGED << action, wake >>

\* Lines 267-304: loop head, sample, and the call of beep on a change.
PowerLoop ==
    IF is_cancelled(token)
    THEN /\ Return("power", None)
         /\ UNCHANGED << wake, beep_pc, beep_args, last_source, state_changed,
                         new_source, hist >>
    ELSE LET src == get_power_source(power_level) IN
         /\ new_source' = src
         /\ IF src # last_source
            THEN /\ last_source' = src
                 /\ state_changed' = now
                 /\ CallBeep("power", transition_beep(src))
                 /\ hist' = [hist EXCEPT !.samples["power"] = @ + 1,
                                         !.changes = @ + 1,
                                         !.beep_calls["power"] = @ + 1,
                                         !.pulses["power"] = 0,
                                         !.beep_start["power"] = now]
            ELSE /\ mon_pc' = [mon_pc EXCEPT !["power"] = "check"]
                 /\ hist' = [hist EXCEPT !.samples["power"] = @ + 1]
                 /\ UNCHANGED << last_source, state_changed, beep_pc, beep_args >>
         /\ UNCHANGED << action, wake >>

\* beep has returned to get_power_loss_action.
PowerBeepReturned ==
    /\ beep_pc' = [beep_pc EXCEPT !["power"] = "idle"]
    /\ mon_pc' = [mon_pc EXCEPT !["power"] = "check"]
    /\ UNCHANGED << action, wake, beep_args, last_source, state_changed,
                    new_source, hist >>

\* Line 306, and the select! of line 323 when the tick is skipped.
PowerCheck ==
    /\ IF ~is_cancelled(token) /\ new_source = "Battery"
       THEN /\ mon_pc' = [mon_pc EXCEPT !["power"] = "tick"]
            /\ UNCHANGED wake
       ELSE /\ mon_pc' = [mon_pc EXCEPT !["power"] = "select"]
            /\ wake' = [wake EXCEPT !["power"] = now + SLEEP_POWER_MS]
    /\ UNCHANGED << action, hist, beep_pc, beep_args, last_source, state_changed,
                    new_source >>

\* Lines 307-326: the Battery tick, then the select! on the 10 s sleep.
PowerTick ==
    /\ \E word \in WireWords \cup {ReadError} :
          LET d == power_decision(now - state_changed, args.timeout, word) IN
          /\ hist' = [hist EXCEPT
                        !.cap_reads = IF d.read THEN @ + 1 ELSE @,
                        !.last_cap = IF d.read THEN get_capacity(word) ELSE @]
          /\ IF d.action # None
             THEN /\ Return("power", d.action)
                  /\ UNCHANGED wake
             ELSE /\ mon_pc' = [mon_pc EXCEPT !["power"] = "select"]
                  /\ wake' = [wake EXCEPT !["power"] = now + SLEEP_POWER_MS]
                  /\ UNCHANGED action
    /\ UNCHANGED << beep_pc, beep_args, last_source, state_changed, new_source >>

\* The select! of line 323 has completed.
PowerSelect ==
    /\ mon_pc' = [mon_pc EXCEPT !["power"] = "loop"]
    /\ wake' = [wake EXCEPT !["power"] = -1]
    /\ hist' = [hist EXCEPT !.sleeps = IF token THEN @ ELSE @ + 1]
    /\ UNCHANGED << action, beep_pc, beep_args, last_source, state_changed,
                    new_source >>

PowerReady ==
    CASE mon_pc["power"] \in {"start", "loop", "check", "tick"} -> TRUE
      [] mon_pc["power"] = "beep" -> beep_pc["power"] = "returned"
      [] mon_pc["power"] = "select" -> SelectReady(token, wake["power"], now)
      [] OTHER -> FALSE

get_power_loss_action ==
    /\ rt_pc["power"] = "monitor"
    /\ PowerReady
    /\ CASE mon_pc["power"] = "start" -> PowerStart
         [] mon_pc["power"] = "loop" -> PowerLoop
         [] mon_pc["power"] = "beep" -> PowerBeepReturned
         [] mon_pc["power"] = "check" -> PowerCheck
         [] mon_pc["power"] = "tick" -> PowerTick
         [] mon_pc["power"] = "select" -> PowerSelect
    /\ UNCHANGED << now, token, args, power_level, button_script, main_pc, rt_pc,
                    rt_result, counter, lock, buzzer, pulse_start, calls, process >>

\* ------------------------------------------------------ get_button_action
\* Lines 338-353: loop head, sample, and the press beep.
ButtonLoop ==
    IF is_cancelled(token)
    THEN /\ Return("button", None)
         /\ UNCHANGED << wake, beep_pc, beep_args, pulse_start, hist >>
    ELSE /\ hist' = [hist EXCEPT
                       !.samples["button"] = @ + 1,
                       !.beep_calls["button"] =
                           IF get_button_state(ButtonLevel(button_script, now)) = "Pressed"
                           THEN @ + 1 ELSE @,
                       !.pulses["button"] = 0,
                       !.beep_start["button"] = now]
         /\ IF get_button_state(ButtonLevel(button_script, now)) = "Released"
            THEN /\ mon_pc' = [mon_pc EXCEPT !["button"] = "select"]
                 /\ wake' = [wake EXCEPT !["button"] = now + SLEEP_BUTTON_MS]
                 /\ UNCHANGED << beep_pc, beep_args >>
            ELSE /\ CallBeep("button", PressBeep)
                 /\ UNCHANGED wake
         /\ UNCHANGED << action, pulse_start >>

\* The select! of line 341 has completed.
ButtonSelect ==
    /\ mon_pc' = [mon_pc EXCEPT !["button"] = "loop"]
    /\ wake' = [wake EXCEPT !["button"] = -1]
    /\ UNCHANGED << action, beep_pc, beep_args, pulse_start, hist >>

\* A press timed from the sample that saw it, before the beep.
ButtonBeepReturned_early ==
    /\ beep_pc' = [beep_pc EXCEPT !["button"] = "idle"]
    /\ pulse_start' = hist.beep_start["button"]
    /\ mon_pc' = [mon_pc EXCEPT !["button"] = "hold"]
    /\ UNCHANGED << action, wake, beep_args, hist >>

\* beep has returned: line 355.
ButtonBeepReturned ==
    /\ beep_pc' = [beep_pc EXCEPT !["button"] = "idle"]
    /\ pulse_start' = now
    /\ mon_pc' = [mon_pc EXCEPT !["button"] = "hold"]
    /\ UNCHANGED << action, wake, beep_args, hist >>

\* Lines 357-364: the head of the hold loop.
ButtonHold ==
    /\ IF ~is_cancelled(token)
          /\ get_button_state(ButtonLevel(button_script, now)) = "Pressed"
       THEN /\ mon_pc' = [mon_pc EXCEPT !["button"] = "select_hold"]
            /\ wake' = [wake EXCEPT !["button"] = now + SLEEP_BUTTON_MS]
       ELSE /\ mon_pc' = [mon_pc EXCEPT !["button"] = "released"]
            /\ UNCHANGED wake
    /\ hist' = [hist EXCEPT !.samples["button"] =
                    IF is_cancelled(token) THEN @ ELSE @ + 1]
    /\ UNCHANGED << action, beep_pc, beep_args, pulse_start >>

\* Line 366; when cancelled, control goes back to the loop head of line 338.
ButtonReleased ==
    /\ mon_pc' = [mon_pc EXCEPT !["button"] =
                      IF ~is_cancelled(token) THEN "classify" ELSE "loop"]
    /\ UNCHANGED << action, wake, beep_pc, beep_args, pulse_start, hist >>

\* Lines 367-373.
ButtonClassify ==
    /\ Return("button", button_decision(now - pulse_start))
    /\ UNCHANGED << wake, beep_pc, beep_args, pulse_start, hist >>

\* The select! of line 360 has completed.
ButtonSelectHold ==
    /\ mon_pc' = [mon_pc EXCEPT !["button"] = "hold"]
    /\ wake' = [wake EXCEPT !["button"] = -1]
    /\ UNCHANGED << action, beep_pc, beep_args, pulse_start, hist >>

ButtonReady ==
    CASE mon_pc["button"] \in {"loop", "hold", "released", "classify"} -> TRUE
      [] mon_pc["button"] = "beep" -> beep_pc["button"] = "returned"
      [] mon_pc["button"] \in {"select", "select_hold"} ->
             SelectReady(token, wake["button"], now)
      [] OTHER -> FALSE

get_button_action ==
    /\ rt_pc["button"] = "monitor"
    /\ ButtonReady
    /\ CASE mon_pc["button"] = "loop" -> ButtonLoop
         [] mon_pc["button"] = "select" -> ButtonSelect
         [] mon_pc["button"] = "beep" -> ButtonBeepReturned
         [] mon_pc["button"] = "hold" -> ButtonHold
         [] mon_pc["button"] = "released" -> ButtonReleased
         [] mon_pc["button"] = "classify" -> ButtonClassify
         [] mon_pc["button"] = "select_hold" -> ButtonSelectHold
    /\ UNCHANGED << now, token, args, power_level, button_script, main_pc, rt_pc,
                    rt_result, counter, lock, buzzer, last_source, state_changed,
                    new_source, calls, process >>

\* ------------------------------- power_loss_routine and button_routine
\* The monitor has returned (lines 62-68, 97): nothing to do on None.
RoutineMatch(self) ==
    /\ IF action[self] = None
       THEN /\ rt_pc' = [rt_pc EXCEPT ![self] = "done"]
            /\ rt_result' = [rt_result EXCEPT ![self] = "Ok"]
       ELSE /\ rt_pc' = [rt_pc EXCEPT ![self] = "cancel"]
            /\ UNCHANGED rt_result
    /\ UNCHANGED << token, hist >>

\* cancellation_token.cancel() (lines 69, 98), then the println!.
RoutineCancel(self) ==
    /\ token' = cancel(token)
    /\ hist' = [hist EXCEPT !.cancelled_at =
                    IF ~token /\ cancel(token) THEN now ELSE @]
    /\ rt_pc' = [rt_pc EXCEPT ![self] = "call"]
    /\ UNCHANGED rt_result

routine(self) ==
    /\ \/ rt_pc[self] = "monitor" /\ mon_pc[self] = "done"
       \/ rt_pc[self] = "cancel"
    /\ IF rt_pc[self] = "monitor" THEN RoutineMatch(self) ELSE RoutineCancel(self)
    /\ UNCHANGED << now, args, power_level, button_script, main_pc, mon_pc,
                    action, wake, beep_pc, beep_args, counter, lock, buzzer,
                    last_source, state_changed, new_source, pulse_start, calls,
                    process >>

\* ------------------------------------------------------ run_shell_command
\* Lines 124-129: split the command, spawn the child.
ShellSpawn(self, command) ==
    /\ calls' = Append(calls, command)
    /\ IF split_whitespace(command) = << >>
       THEN /\ rt_pc' = [rt_pc EXCEPT ![self] = "done"]
            /\ rt_result' = [rt_result EXCEPT ![self] = "NoCommand"]
            /\ UNCHANGED << process, hist >>
       ELSE \E spawned \in BOOLEAN :
              IF spawned
              THEN /\ process' = "running"
                   /\ rt_pc' = [rt_pc EXCEPT ![self] = "wait"]
                   /\ hist' = [hist EXCEPT !.spawned = @ + 1]
                   /\ UNCHANGED rt_result
              ELSE /\ rt_pc' = [rt_pc EXCEPT ![self] = "done"]
                   /\ rt_result' = [rt_result EXCEPT ![self] = "SpawnFailed"]
                   /\ UNCHANGED << process, hist >>

\* Lines 130-138: the child has exited.
ShellWait(self) ==
    \E status \in ExitStatuses :
      /\ process' = "exited"
      /\ hist' = [hist EXCEPT !.exit = status]
      /\ rt_pc' = [rt_pc EXCEPT ![self] = "done"]
      /\ rt_result' = [rt_result EXCEPT ![self] = ExitResult(status)]
      /\ UNCHANGED calls

run_shell_command(self) ==
    /\ rt_pc[self] \in {"call", "wait"}
    /\ IF rt_pc[self] = "call"
       THEN ShellSpawn(self, routine_command(self, action[self], args))
       ELSE ShellWait(self)
    /\ UNCHANGED << now, token, args, power_level, button_script, main_pc,
                    mon_pc, action, wake, beep_pc, beep_args, counter, lock,
                    buzzer, last_source, state_changed, new_source, pulse_start >>

\* ------------------------------------------------------------------- main
\* Lines 51-54: `power_loss_routine.await?` then `button_routine.await?`.
main ==
    /\ main_pc \in {"power_loss_routine", "button_routine"}
    /\ IF main_pc = "power_loss_routine"
       THEN /\ rt_pc["power"] = "done"
            /\ IF rt_result["power"] = "Ok"
               THEN /\ main_pc' = "button_routine"
                    /\ rt_pc' = [rt_pc EXCEPT !["button"] = "monitor"]
                    /\ mon_pc' = [mon_pc EXCEPT !["button"] = "loop"]
               ELSE /\ main_pc' = "err"
                    /\ UNCHANGED << rt_pc, mon_pc >>
       ELSE /\ rt_pc["button"] = "done"
            /\ main_pc' = IF rt_result["button"] = "Ok" THEN "ok" ELSE "err"
            /\ UNCHANGED << rt_pc, mon_pc >>
    /\ UNCHANGED << now, token, args, power_level, button_script, rt_result,
                    action, wake, beep_pc, beep_args, counter, lock, buzzer,
                    last_source, state_changed, new_source, pulse_start, calls,
                    process, hist >>

\* ------------------------------------------------------------ environment
Alive == main_pc \notin {"ok", "err"}

\* The handler installed by setup_signals (lines 145-150).
SignalHandler ==
    /\ Alive
    /\ token' = cancel(token)
    /\ hist' = [hist EXCEPT !.signalled = TRUE,
                            !.cancelled_at = IF ~token /\ cancel(token) THEN now ELSE @]
    /\ UNCHANGED << now, args, power_level, button_script, main_pc, rt_pc,
                    rt_result, mon_pc, action, wake, beep_pc, beep_args, counter,
                    lock, buzzer, last_source, state_changed, new_source,
                    pulse_start, calls, process >>

\* The mains supply fails or comes back.
PowerPinChange ==
    /\ Alive
    /\ rt_pc["power"] = "monitor"
    /\ power_level' = IF power_level = "Low" THEN "High" ELSE "Low"
    /\ hist' = [hist EXCEPT !.ever_battery = TRUE]
    /\ UNCHANGED << now, token, args, button_script, main_pc, rt_pc, rt_result,
                    mon_pc, action, wake, beep_pc, beep_args, counter, lock,
                    buzzer, last_source, state_changed, new_source, pulse_start,
                    calls, process >>

\* A task that can take a step now.
TaskReady(t) ==
    CASE rt_pc[t] = "cancel" \/ rt_pc[t] = "call" -> TRUE
      [] rt_pc[t] = "monitor" ->
             \/ mon_pc[t] = "done"
             \/ mon_pc[t] = "beep" /\ BeepReady(t)
             \/ IF t = "power" THEN PowerReady ELSE ButtonReady
      [] OTHER -> FALSE

MainReady ==
    \/ main_pc = "power_loss_routine" /\ rt_pc["power"] = "done"
    \/ main_pc = "button_routine" /\ rt_pc["button"] = "done"

Sleepers == {t \in Tasks : wake[t] >= 0}

NextDeadline == CHOOSE d \in {wake[t] : t \in Sleepers} :
                    \A t \in Sleepers : d <= wake[t]

\* The model follows the 50 ms ticks of the button monitor up to MaxButtonTime
\* and the 10 s ticks of the power monitor up to MaxTime.
Horizon == IF rt_pc["button"] = "monitor" THEN MaxButtonTime ELSE MaxTime

\* Time passes to the next deadline, or a little beyond it.
Advance ==
    /\ Alive
    /\ ~MainReady
    /\ \A t \in Tasks : ~TaskReady(t)
    /\ Sleepers # {}
    /\ \E j \in 0..MaxJitter :
          /\ NextDeadline + j <= Horizon
          /\ now' = NextDeadline + j
    /\ UNCHANGED << token, args, power_level, button_script, main_pc, rt_pc,
                    rt_result, mon_pc, action, wake, beep_pc, beep_args, counter,
                    lock, buzzer, last_source, state_changed, new_source,
                    pulse_start, calls, process, hist >>

\* ---------------------------------------------------------- specification
Next ==
    \/ main
    \/ \E self \in Tasks : routine(self)
    \/ \E self \in Tasks : run_shell_command(self)
    \/ get_power_loss_action
    \/ get_button_action
    \/ \E self \in Tasks : beep(self)
    \/ SignalHandler
    \/ PowerPinChange
    \/ Advance

\* The program.
Spec == Init /\ [][Next]_vars

\* Each routine on its own, with a token that starts uncancelled.
NextRoutine ==
    \/ \E self \in Tasks : routine(self)
    \/ \E self \in Tasks : run_shell_command(self)
    \/ get_power_loss_action
    \/ get_button_action
    \/ \E self \in Tasks : beep(self)
    \/ SignalHandler
    \/ PowerPinChange
    \/ Advance

SpecRoutine == InitRoutine /\ [][NextRoutine]_vars

\* The two routines side by side.
SpecJoined == InitJoined /\ [][NextRoutine]_vars

\* The program and each routine on its own, on fewer inputs, with the
\* fairness of the runtime: a task that can run is eventually polled, and a
\* spawned child eventually exits.  Nothing forces time to pass.
InitLive ==
    /\ Init \/ InitRoutine
    /\ args.shutdown = <<"s", " ", "h">>
    /\ args.timeout = 10
    /\ button_script \in {NoPress, <<0, 800>>}

Fairness ==
    /\ WF_vars(main)
    /\ WF_vars(get_power_loss_action)
    /\ WF_vars(get_button_action)
    /\ \A self \in Tasks :
          /\ WF_vars(routine(self))
          /\ WF_vars(run_shell_command(self))
          /\ WF_vars(beep(self))

LiveSpec == InitLive /\ [][Next]_vars /\ Fairness

TypeOK ==
    /\ now \in 0..MaxTime
    /\ token \in BOOLEAN
    /\ lock \in Tasks \cup {"free"}
    /\ buzzer \in {"Low", "High"}

\* ------------------------------------------------------------- properties
Resolved(t) == action[t] # None

\* The command the specification maps an action kind to.
MappedCommand(kind) == IF kind = "Reboot" THEN args.reboot ELSE args.shutdown

\* C1: over the lifetime of the process at most one of the two monitors
\* produces an action; once one has, the other returns nothing.
C1_AtMostOneAction == ~(Resolved("power") /\ Resolved("button"))

C1_Witness ==
    /\ Resolved("power")
    /\ rt_pc["button"] = "done" /\ action["button"] = None
    /\ main_pc = "ok"

\* C2: a routine whose monitor resolved an action calls run_shell_command
\* exactly once, with the shutdown command for Timeout, CapacityLow and
\* Shutdown and the reboot command for Reboot, also when the command fails;
\* a routine whose monitor resolved nothing never calls it.
Called(t) == rt_pc[t] \in {"wait", "done"} /\ Resolved(t)

C2_ExactlyOnce ==
    /\ Len(calls) = Cardinality({t \in Tasks : Called(t)})
    /\ Len(calls) <= 1
    /\ \A t \in Tasks :
          Called(t) => calls = << MappedCommand(action[t].kind) >>

C2_Witness ==
    /\ action["button"].kind = "Reboot"
    /\ rt_pc["button"] = "done" /\ rt_result["button"] = "CommandFailed"
    /\ calls = << args.reboot >>

C2_WitnessPower ==
    /\ action["power"].kind = "CapacityLow"
    /\ rt_pc["power"] = "done" /\ rt_result["power"] = "CommandFailed"
    /\ calls = << args.shutdown >>

\* C3: the monitors run concurrently: by the time the clock has moved past
\* one button tick with the power monitor still running and no cancellation,
\* the button monitor has taken a sample.
C3_MonitorsConcurrent ==
    (now >= SLEEP_BUTTON_MS /\ rt_pc["power"] = "monitor" /\ ~token)
        => hist.samples["button"] >= 1

\* C4: with the source on PowerSupply throughout and no signal, a button held
\* for 2500 ms makes the dispatcher invoke the reboot command, and one held
\* for 800 ms the shutdown command; either has happened by the time the
\* power monitor wakes from its first 10 s sleep.
C4_ButtonEndToEnd ==
    ( /\ ~hist.ever_battery /\ ~hist.signalled
      /\ button_script \in {<<0, 2500>>, <<0, 800>>}
      /\ now >= SLEEP_POWER_MS )
        => calls = << IF button_script[2] = 2500 THEN args.reboot ELSE args.shutdown >>

\* C5 as stated: the kind of the resolved ButtonAction is decided by the time
\* the pin stayed Pressed: Reboot when the hold is at least 2000 ms, Shutdown
\* when it is shorter.
C5_HoldClassified ==
    Resolved("button") =>
        action["button"].kind =
            IF button_script[2] >= 2000 THEN "Reboot" ELSE "Shutdown"

\* C5 amended: the button monitor classifies by elapsed, the time from
\* pulse_start (taken when the press beep has returned) to the sample that
\* reads Released: Reboot(elapsed) when elapsed >= 2000 ms, Shutdown(elapsed)
\* when elapsed < 2000 ms.
C5_ElapsedClassified ==
    [][ (~Resolved("button") /\ Resolved("button")') =>
          /\ action'["button"].value = now - pulse_start
          /\ (now - pulse_start >= 2000 => action'["button"].kind = "Reboot")
          /\ (now - pulse_start < 2000 => action'["button"].kind = "Shutdown")
      ]_vars

\* The boundary on both sides, and a hold of 2000 ms that resolves Shutdown.
C5_Witness == action["button"] = Some("Reboot", 2000)

C5_WitnessBelow == action["button"] = Some("Shutdown", 1999)

C5_WitnessHold2000 ==
    button_script = <<0, 2000>> /\ action["button"].kind = "Shutdown"

\* The power monitor, having sampled Battery and found the token unset at
\* line 306, executes the tick of lines 307-320 in this step.
BatteryTick == mon_pc["power"] = "tick" /\ mon_pc'["power"] # "tick"

\* C6: on a Battery tick, uncancelled, with elapsed d beyond the timeout, the
\* monitor resolves Timeout(d) on that tick and does not read the capacity.
C6_TimeoutFirst ==
    [][ ( /\ BatteryTick
          /\ new_source = "Battery"
          /\ now - state_changed > args.timeout * 1000 )
        => /\ mon_pc'["power"] = "done"
           /\ action'["power"] = [kind |-> "Timeout", value |-> now - state_changed]
           /\ hist'.cap_reads = hist.cap_reads
      ]_vars

C6_Witness ==
    /\ action["power"] = Some("Timeout", 10001)
    /\ args.timeout = 10
    /\ hist.cap_reads = 1

\* C7: on a Battery tick, uncancelled, with elapsed within the timeout, the
\* capacity is read; a successful read c (in 1/25600) below 20% resolves
\* CapacityLow(c), one of at least 20% resolves nothing and the monitor goes
\* to sleep; after CapacityLow the routine runs the shutdown command.
C7_CapacityTick ==
    ( /\ BatteryTick
      /\ new_source = "Battery"
      /\ now - state_changed <= args.timeout * 1000 )
    => /\ hist'.cap_reads = hist.cap_reads + 1
       /\ (hist'.last_cap # ReadError /\ hist'.last_cap * 100 < 20 * 25600)
             => /\ mon_pc'["power"] = "done"
                /\ action'["power"] = [kind |-> "CapacityLow", value |-> hist'.last_cap]
       /\ (hist'.last_cap # ReadError /\ hist'.last_cap * 100 >= 20 * 25600)
             => /\ mon_pc'["power"] = "select"
                /\ action'["power"] = None

C7_ThenShutdown ==
    (action["power"].kind = "CapacityLow" /\ rt_pc["power"] \in {"wait", "done"})
        => calls = << args.shutdown >>

C7_CapacityLow == [][C7_CapacityTick]_vars /\ []C7_ThenShutdown

\* Scenario 1: Battery on three consecutive ticks, 15% on the third.
C7_Witness ==
    /\ action["power"] = Some("CapacityLow", 3840)
    /\ hist.samples["power"] = 3 /\ hist.changes = 0
    /\ args.timeout = 3600
    /\ calls = << args.shutdown >> /\ process = "running"

\* A reading of 20.004% resolves nothing.
C7_WitnessNotLow ==
    /\ hist.last_cap = 5121 /\ mon_pc["power"] = "select" /\ ~Resolved("power")

\* The pattern the specification gives a new source.
ExpectedPattern(source) ==
    IF source = "Battery" THEN [high |-> 500, low |-> 500, count |-> 3]
    ELSE [high |-> 50, low |-> 100, count |-> 2]

\* The beep call of the power monitor has returned.
PowerBeepDone == mon_pc["power"] = "beep" /\ beep_pc["power"] = "returned"

\* C8 as stated: the pattern played for a changed sample always has all its
\* pulses: 3 for a change to Battery, 2 for a change to PowerSupply.
C8_FullPattern ==
    PowerBeepDone =>
        /\ beep_args["power"] = ExpectedPattern(last_source)
        /\ hist.pulses["power"] = beep_args["power"].count

\* The power monitor samples the source in this step (line 268).
PowerSample == mon_pc["power"] = "loop" /\ mon_pc'["power"] \notin {"loop", "done"}

\* C8 amended: a sample that differs from the previous one starts exactly one
\* beep call with the pattern of the new source (3 pulses 500/500 for Battery,
\* 2 pulses 50/100 for PowerSupply); an equal sample starts none.
C8_OnePatternPerChange ==
    /\ PowerSample =>
          IF get_power_source(power_level) # last_source
          THEN /\ beep_pc'["power"] = "lock"
               /\ beep_args'["power"] = ExpectedPattern(get_power_source(power_level))
               /\ hist'.beep_calls["power"] = hist.beep_calls["power"] + 1
               /\ last_source' = get_power_source(power_level)
          ELSE /\ beep_pc'["power"] = "idle"
               /\ mon_pc'["power"] = "check"
               /\ hist'.beep_calls["power"] = hist.beep_calls["power"]
    /\ ~PowerSample => hist'.beep_calls["power"] = hist.beep_calls["power"]

\* The pattern has all its pulses, with their full duration, when it ends
\* uncancelled; cancellation cuts it short, to no pulse at all or to some.
C8_PatternUnlessCancelled ==
    /\ PowerBeepDone =>
          /\ hist.pulses["power"] <= beep_args["power"].count
          /\ ~token =>
                /\ hist.pulses["power"] = beep_args["power"].count
                /\ now - hist.beep_start["power"] >=
                       beep_args["power"].count * beep_args["power"].high
                       + (beep_args["power"].count - 1) * beep_args["power"].low
    /\ (buzzer = "High") => (mon_pc["power"] = "beep" /\ beep_pc["power"] = "high")

C8_PatternPerTransition ==
    [][C8_OnePatternPerChange]_vars /\ []C8_PatternUnlessCancelled

\* A loss of power played to its end, in exactly 2500 ms.
C8_Witness ==
    /\ PowerBeepDone /\ ~token
    /\ last_source = "Battery" /\ hist.pulses["power"] = 3
    /\ now - hist.beep_start["power"] = 2500

\* A restoration played to its end, in exactly 200 ms.
C8_WitnessRestored ==
    /\ PowerBeepDone /\ ~token
    /\ last_source = "PowerSupply" /\ hist.pulses["power"] = 2
    /\ now - hist.beep_start["power"] = 200

\* A pattern that cancellation cut to no pulse.
C8_WitnessCut ==
    PowerBeepDone /\ token /\ hist.pulses["power"] = 0

\* The monitor is inside the part of a tick that follows its cancellation
\* check (line 306, line 366) and ends in a return.
Deciding(t) == mon_pc[t] \in {"tick", "classify"}

\* C9 as stated: once cancel() has fired, no monitor resolves an action.
C9_NoActionOnceCancelled == [][token => action' = action]_vars

\* C9 amended: a monitor whose cancellation check finds the token set
\* resolves no action on that tick or later, returns nothing, and its routine
\* runs no command; only a cancel() that falls between the check of a tick
\* and that tick's return does not stop the action.
C9_Step ==
    \A t \in Tasks :
      /\ (token /\ ~Deciding(t)) => (action'[t] = action[t] /\ ~Deciding(t)')
      /\ (action'[t] # action[t]) => Deciding(t)

C9_NoCommand ==
    \A t \in Tasks : ~Resolved(t) => rt_pc[t] \notin {"cancel", "call", "wait"}

C9_NoActionOnceObserved == [][C9_Step]_vars /\ []C9_NoCommand

\* A press that cancellation ended: the monitor returned nothing.
C9_Witness ==
    /\ hist.signalled /\ hist.beep_calls["button"] = 1 /\ pulse_start > 0
    /\ rt_pc["button"] = "done" /\ ~Resolved("button") /\ calls = << >>

\* A cancel() between the check of line 306 and the return.
C9_WitnessRace ==
    hist.signalled /\ Resolved("power") /\ hist.cancelled_at = now
        /\ rt_pc["power"] = "monitor"

\* C10: a monitor still running once the token is set has been running for at
\* most one of its tick periods since the token was set, every monitor call
\* returns, and the process (or the routine called on its own) ends.
TickPeriod(t) == IF t = "power" THEN SLEEP_POWER_MS ELSE SLEEP_BUTTON_MS

MonitorRunning(t) == rt_pc[t] = "monitor" /\ mon_pc[t] # "done"

Terminated ==
    IF main_pc = "harness"
    THEN \A t \in Tasks : rt_pc[t] \in {"idle", "done"}
    ELSE main_pc \in {"ok", "err"}

C10_WithinOneTick ==
    \A t \in Tasks :
      (token /\ MonitorRunning(t)) => now - hist.cancelled_at <= TickPeriod(t)

C10_CancelObserved ==
    /\ []C10_WithinOneTick
    /\ token ~> (\A t \in Tasks : ~MonitorRunning(t))
    /\ token ~> Terminated

\* Cancelled in the high phase of the press beep, and returned.
C10_Witness ==
    /\ hist.signalled /\ hist.pulses["button"] = 1 /\ buzzer = "Low"
    /\ rt_pc["button"] = "done" /\ now < PressBeep.high

\* ---------------------------------------------------------------- C11
\* C11 (as stated): a dispatch that has ended reports success exactly when a
\* child ran to completion with exit code 0, and the command is never run a
\* second time.
C11_OnlyExitZero ==
    /\ \A t \in Tasks :
          (rt_pc[t] = "done" /\ Resolved(t)) =>
              (rt_result[t] = "Ok" <=> (process = "exited" /\ hist.exit = 0))
    /\ Len(calls) <= 1

\* ---------------------------------------------------------------- C12
\* A command string with no character other than whitespace.
Blank(command) == \A i \in 1..Len(command) : command[i] = " "

\* C12: a resolved action whose command is empty or all whitespace ends its
\* dispatch with NoCommand, no process is ever spawned, main ends with the
\* error, and the call that failed stays the only one.
C12_NoCommand ==
    /\ \A t \in Tasks :
          (rt_pc[t] = "done" /\ Resolved(t) /\ Blank(MappedCommand(action[t].kind)))
              => /\ rt_result[t] = "NoCommand"
                 /\ hist.spawned = 0
                 /\ process = "none"
                 /\ calls = << MappedCommand(action[t].kind) >>
                 /\ main_pc \in {"power_loss_routine", "button_routine", "err"}
    /\ rt_result["power"] = "NoCommand" => rt_pc["button"] = "idle"
    /\ \A t \in Tasks : rt_result[t] = "NoCommand" => Blank(calls[1])

C12_Witness ==
    /\ rt_result["power"] = "NoCommand"
    /\ main_pc = "err"
    /\ calls = << <<" ">> >>
    /\ hist.spawned = 0

\* ---------------------------------------------------------------- C13
\* C13: a Battery tick whose capacity read fails resolves nothing, leaves
\* last_source and state_changed as they were, and puts the monitor into
\* its 10 s sleep.
C13_Step ==
    (BatteryTick /\ hist'.cap_reads = hist.cap_reads + 1
                 /\ hist'.last_cap = ReadError)
        => /\ action' = action
           /\ action["power"] = None
           /\ mon_pc'["power"] = "select"
           /\ rt_pc'["power"] = "monitor"
           /\ wake'["power"] = now + SLEEP_POWER_MS
           /\ last_source' = last_source
           /\ state_changed' = state_changed

C13_ReadFailureNotFatal == [][C13_Step]_vars

\* A tick resolves Timeout after every capacity read before it has failed.
C13_Witness ==
    /\ Resolved("power")
    /\ action["power"].kind = "Timeout"
    /\ hist.cap_reads >= 1
    /\ hist.last_cap = ReadError

\* ---------------------------------------------------------------- C14
\* A beep call that holds the buzzer guard.
InTrain(t) == beep_pc[t] \in {"pulse", "high", "low"}

\* A beep call that has come back with the token still clear.
TrainPlayed(t) ==
    hist.beep_calls[t] = 1 /\ beep_pc[t] \in {"idle", "returned"} /\ ~token

\* Only the call that holds the guard changes the level of the device, and
\* a call gets the guard only while no other call is inside its train.
C14_Step ==
    /\ buzzer' # buzzer =>
          \E t \in Tasks :
             /\ lock = t /\ InTrain(t) /\ beep_pc'[t] # beep_pc[t]
             /\ \A u \in Tasks \ {t} : beep_pc'[u] = beep_pc[u]
    /\ \A t \in Tasks :
          (beep_pc[t] = "lock" /\ beep_pc'[t] = "pulse") =>
              \A u \in Tasks \ {t} : ~InTrain(u) /\ ~InTrain(u)'

\* At most one call is inside its train, and without cancellation the device
\* shows every requested pulse: each train whole, and the two together the
\* sum of the two counts.
C14_Exclusive ==
    /\ \A t \in Tasks : InTrain(t) => lock = t
    /\ \A t \in Tasks : TrainPlayed(t) => hist.pulses[t] = beep_args[t].count
    /\ (\A t \in Tasks : TrainPlayed(t)) =>
          hist.pulses["power"] + hist.pulses["button"] =
              beep_args["power"].count + beep_args["button"].count

\* C14: two beep calls in progress together are serialized by the buzzer
\* lock: the second waits for the first to return, their pulses never
\* interleave, and uncancelled the device shows the sum of the two counts.
C14_Serialized == [][C14_Step]_vars /\ []C14_Exclusive

\* Both trains played whole, the loss of power and the press: four pulses.
C14_Witness ==
    /\ \A t \in Tasks : TrainPlayed(t)
    /\ hist.pulses["power"] + hist.pulses["button"] = 4
    /\ buzzer = "Low"

\* The press beep waits while the power pattern holds the device high.
C14_WitnessWaiting ==
    /\ beep_pc["button"] = "lock" /\ lock = "power" /\ buzzer = "High" /\ now > 0

\* The power pattern waits while the press beep holds the device high.
C14_WitnessWaitingPower ==
    /\ beep_pc["power"] = "lock" /\ lock = "button" /\ buzzer = "High" /\ now > 0

\* ---------------------------------------------------------------- C15
\* The device is high only inside the high phase of a pulse.
C15_LowOutsideBeep ==
    /\ (\A t \in Tasks : ~InTrain(t)) => buzzer = "Low"
    /\ buzzer = "High" => \E t \in Tasks : beep_pc[t] = "high"

\* A return of beep happens with the device low, and a pulse entered with the
\* token set returns at once without a set_high.
C15_Step ==
    \A t \in Tasks :
       /\ (beep_pc[t] # "returned" /\ beep_pc'[t] = "returned") =>
             buzzer = "Low" /\ buzzer' = "Low"
       /\ (beep_pc[t] = "pulse" /\ beep_pc'[t] # "pulse" /\ token) =>
             /\ beep_pc'[t] = "returned"
             /\ hist'.pulses = hist.pulses
       /\ (beep_pc[t] = "high" /\ beep_pc'[t] # "high") => buzzer' = "Low"

\* C15: every return of beep leaves the device low, after a whole train,
\* after a cancellation in the high phase, and after a cancellation seen at
\* the entry of a pulse.
C15_BuzzerLow == [][C15_Step]_vars /\ []C15_LowOutsideBeep

\* A press beep cut in its high phase has returned.
C15_Witness ==
    /\ beep_pc["button"] = "returned" /\ token /\ buzzer = "Low"
    /\ hist.pulses["button"] = 1
    /\ now < hist.beep_start["button"] + PressBeep.high

\* A call that found the token set at the entry of its first pulse.
C15_WitnessEntry ==
    /\ beep_pc["power"] = "returned" /\ token /\ buzzer = "Low"
    /\ hist.pulses["power"] = 0

\* ---------------------------------------------------------------- C16
\* Everything a holder of the token, a monitor or a beep call, can see.
Observable ==
    << token, mon_pc, action, wake, beep_pc, counter, lock, buzzer, last_source,
       state_changed, new_source, pulse_start, calls, process, rt_result >>

\* The token never goes back to clear; a signal that arrives with the token
\* set changes nothing, and a dispatcher's cancel() with the token set only
\* moves that dispatcher on to its command.
C16_Step ==
    /\ token => token'
    /\ (token /\ hist'.signalled # hist.signalled) =>
          /\ Observable' = Observable
          /\ rt_pc' = rt_pc /\ main_pc' = main_pc
          /\ hist'.cancelled_at = hist.cancelled_at
    /\ \A t \in Tasks :
          (token /\ rt_pc[t] = "cancel" /\ rt_pc'[t] # "cancel") =>
              /\ Observable' = Observable
              /\ rt_pc'[t] = "call"
              /\ hist'.cancelled_at = hist.cancelled_at

\* C16: the cancellation signal is monotonic and a repeated cancel(), by the
\* dispatcher after the signal handler or the reverse, changes nothing a
\* holder can observe.
C16_MonotonicIdempotent == [][C16_Step]_vars

\* The dispatcher has cancelled, and so has the signal handler.
C16_Witness ==
    /\ token /\ hist.signalled
    /\ Resolved("power") /\ rt_pc["power"] \in {"call", "wait", "done"}

\* The signal came first: the dispatcher is about to cancel a set token.
C16_WitnessSignalFirst ==
    /\ token /\ hist.signalled /\ rt_pc["power"] = "cancel"

\* ---------------------------------------------------------------- C17
\* C17: whenever the executor has been invoked, or is about to be, the
\* cancellation signal is already set.
C17_CancelBeforeCommand ==
    /\ calls # << >> => token
    /\ \A t \in Tasks :
          rt_pc[t] \in {"call", "wait"} => token /\ hist.cancelled_at >= 0
    /\ process # "none" => token

\* The dispatcher alone has cancelled, and the child is running.
C17_Witness ==
    /\ process = "running" /\ calls # << >>
    /\ token /\ ~hist.signalled /\ hist.cancelled_at >= 0

\* ---------------------------------------------------------------- C18
\* The time of the most recent source change the monitor has observed; the
\* monitor starts at time 0.
LastChange == IF hist.changes = 0 THEN 0 ELSE hist.beep_start["power"]

\* The source the pin shows now.
PinSource == IF power_level = "High" THEN "Battery" ELSE "PowerSupply"

\* A sample that differs from last_source takes the new source and the
\* current time, any other sample keeps both, nothing else moves them, and a
\* Battery tick resolves Timeout exactly when the time since the most recent
\* observed change exceeds the timeout.
C18_Step ==
    /\ PowerSample =>
          /\ new_source' = PinSource
          /\ IF PinSource # last_source
             THEN last_source' = PinSource /\ state_changed' = now
             ELSE last_source' = last_source /\ state_changed' = state_changed
    /\ (mon_pc["power"] # "start" /\ ~PowerSample) =>
          last_source' = last_source /\ state_changed' = state_changed
    /\ BatteryTick =>
          (action'["power"] # None /\ action'["power"].kind = "Timeout")
              <=> now - LastChange > args.timeout * 1000

\* C18: the battery timeout runs from the most recent observed source
\* change, so battery time before a restoration is never counted.
C18_TimeoutFromLastChange ==
    [][C18_Step]_vars /\ [](mon_pc["power"] # "start" => state_changed = LastChange)

\* On battery for 10 s, restored, lost again: the tick after the second loss
\* resolves nothing although more than timeout has been spent on battery.
C18_Witness ==
    /\ hist.changes = 2 /\ last_source = "Battery"
    /\ mon_pc["power"] = "select" /\ ~Resolved("power") /\ ~token
    /\ args.timeout = 10
    /\ state_changed > args.timeout * 1000
    /\ now - state_changed <= args.timeout * 1000
    /\ hist.cap_reads >= 2

\* ---------------------------------------------------------------- C19
\* pulse_start is taken when the press beep has returned and at no other
\* step, a whole beep after the Pressed sample unless cancellation cut it;
\* the action resolved on release is Reboot from 2 s of elapsed time on and
\* Shutdown below, with elapsed = now - pulse_start.
C19_Step ==
    /\ (mon_pc["button"] = "beep" /\ mon_pc'["button"] = "hold") =>
          /\ beep_pc["button"] = "returned"
          /\ pulse_start' = now
          /\ ~token => now >= hist.beep_start["button"] + PressBeep.high
    /\ pulse_start' # pulse_start =>
          (mon_pc["button"] = "beep" /\ mon_pc'["button"] = "hold")
    /\ (mon_pc["button"] = "classify" /\ mon_pc'["button"] = "done") =>
          /\ action'["button"] # None
          /\ action'["button"].value = now - pulse_start
          /\ action'["button"].kind =
                 IF now - pulse_start >= 2000 THEN "Reboot" ELSE "Shutdown"
    /\ action'["button"] # action["button"] =>
          (mon_pc["button"] = "classify" /\ action["button"] = None)

\* A monitor that saw a press and came back with nothing was cancelled; one
\* press is handled, with one beep; a press seen on one sample only, gone by
\* the next, resolves Shutdown.
C19_OneAction ==
    /\ (mon_pc["button"] = "done" /\ hist.beep_calls["button"] >= 1
            /\ ~Resolved("button")) => token
    /\ hist.beep_calls["button"] <= 1
    /\ Resolved("button") => hist.beep_calls["button"] = 1
    /\ (mon_pc["button"] = "done" /\ button_script = <<0, 30>> /\ ~token) =>
          (Resolved("button") /\ action["button"].kind = "Shutdown")

\* C19: a Pressed sample ends in exactly one action unless cancellation
\* comes first; pulse_start follows the press beep; the outcome depends on
\* elapsed alone; a single-sample press is not filtered out.
C19_PressResolves == [][C19_Step]_vars /\ []C19_OneAction

\* The press of 30 ms: seen by the first sample, gone by the second.
C19_Witness ==
    /\ button_script = <<0, 30>>
    /\ Resolved("button") /\ action["button"].kind = "Shutdown"
    /\ hist.samples["button"] = 2
    /\ pulse_start >= PressBeep.high
    /\ ~hist.signalled

\* ---------------------------------------------------------------- C20
\* C20: in the program as written button_routine is polled only after
\* power_loss_routine has returned Ok, and the token is set by then: the
\* button monitor never samples the pin, never beeps, resolves no
\* ButtonAction, dispatches nothing, and the reboot command is never invoked.
C20_ButtonNeverActs ==
    /\ rt_pc["button"] # "idle" =>
          /\ token
          /\ rt_pc["power"] = "done" /\ rt_result["power"] = "Ok"
    /\ hist.samples["button"] = 0
    /\ hist.beep_calls["button"] = 0
    /\ action["button"] = None
    /\ rt_pc["button"] \in {"idle", "monitor", "done"}
    /\ \A i \in 1..Len(calls) : calls[i] # args.reboot

\* The button was held for 2.5 s from the start; a signal ended the power
\* monitor, and the program ended without a sample of the button.
C20_Witness ==
    /\ button_script = <<0, 2500>>
    /\ main_pc = "ok" /\ rt_pc["button"] = "done"
    /\ hist.signalled /\ ~Resolved("power")
    /\ hist.samples["button"] = 0
    /\ calls = << >>

\* ---------------------------------------------------------------- C21
\* The monitor read Battery at its start and has observed no change since.
StartedOnBattery ==
    mon_pc["power"] # "start" /\ hist.changes = 0 /\ last_source = "Battery"

\* The start takes last_source from the pin and state_changed from the
\* clock, without a beep; a Battery sample after a Battery start calls no
\* beep and keeps state_changed; a Battery tick then resolves Timeout once
\* more than the timeout has passed since the start (time 0), and below
\* that CapacityLow exactly when a capacity under 20 % was read.
C21_Step ==
    /\ (mon_pc["power"] = "start" /\ mon_pc'["power"] # "start") =>
          /\ last_source' = PinSource
          /\ state_changed' = now
          /\ beep_pc' = beep_pc /\ buzzer' = buzzer /\ hist' = hist
    /\ (PowerSample /\ StartedOnBattery /\ PinSource = "Battery") =>
          /\ mon_pc'["power"] = "check"
          /\ hist'.beep_calls = hist.beep_calls
          /\ hist'.changes = 0
          /\ state_changed' = state_changed
    /\ (BatteryTick /\ StartedOnBattery) =>
          IF now > args.timeout * 1000
          THEN action'["power"] = [kind |-> "Timeout", value |-> now]
          ELSE IF hist'.last_cap # ReadError /\ hist'.last_cap * 100 < 20 * 25600
               THEN action'["power"] =
                        [kind |-> "CapacityLow", value |-> hist'.last_cap]
               ELSE action'["power"] = None

\* No pattern has been played for a loss of power the monitor started in.
C21_NoBeepAtStart ==
    StartedOnBattery =>
        /\ hist.beep_calls["power"] = 0
        /\ hist.pulses["power"] = 0
        /\ beep_pc["power"] = "idle"
        /\ buzzer = "Low"
        /\ state_changed = 0

\* C21: a power monitor that starts with the source on Battery plays no
\* feedback pattern for that loss, counts the timeout from its start, and
\* still resolves Timeout and CapacityLow on later Battery ticks.
C21_StartOnBattery == [][C21_Step]_vars /\ []C21_NoBeepAtStart

\* Started on battery, silent, and timed out on the second tick.
C21_Witness ==
    /\ StartedOnBattery
    /\ Resolved("power") /\ action["power"].kind = "Timeout"
    /\ action["power"].value > SLEEP_POWER_MS
    /\ hist.samples["power"] = 2
    /\ hist.beep_calls["power"] = 0

\* Started on battery, silent, and low capacity read on the second tick.
C21_WitnessCapacity ==
    /\ StartedOnBattery
    /\ Resolved("power") /\ action["power"].kind = "CapacityLow"
    /\ hist.samples["power"] = 2
    /\ hist.beep_calls["power"] = 0

====
